---- MODULE Spec2Model ----
(***************************************************************************)
(* Session lifecycle of the openssh crate (src/src/lib.rs): the handshake  *)
(* of SessionBuilder::connect, Session::check, Session::command,           *)
(* Session::close, the private termination routine, Drop for Session and   *)
(* the error classifier interpret_ssh_error.                               *)
(*                                                                         *)
(* Texts (Rust String / &str) are sequences of one-character strings, so   *)
(* that trimming, prefix tests and splitting are computed character by     *)
(* character as the code computes them.                                    *)
(***************************************************************************)
EXTENDS Integers, Sequences, FiniteSets, TLC

----------------------------------------------------------------------------
(* Bounds of the model.                                                    *)

\* Number of threads that share a reference to the Session and call check.
NumThreads == 2

\* Cap on the number of Command builders counted.
MaxCommands == 1

\* Cap on the exit sub-commands attempted before code of the crate stops
\* calling terminate directly.
MaxExits == 2

----------------------------------------------------------------------------
(* Program constants.                                                      *)

\* The exit code by which ssh reports a connection-level failure.
ConnErrCode == 255

\* status.code() of a process killed by a signal is None: it has no code.
NoCode == 0 - 1

----------------------------------------------------------------------------
(* Text primitives of the Rust standard library, as the code uses them.    *)

\* char::is_whitespace, restricted to the ASCII white space.
IsWhite(c) == c \in {" ", "\t", "\n", "\r", "\f"}

\* str::trim_start
RECURSIVE TrimStart(_)
TrimStart(s) ==
    IF s # <<>> /\ IsWhite(Head(s)) THEN TrimStart(Tail(s)) ELSE s

\* str::trim_end
RECURSIVE TrimEnd(_)
TrimEnd(s) ==
    IF s # <<>> /\ IsWhite(s[Len(s)]) THEN TrimEnd(SubSeq(s, 1, Len(s) - 1)) ELSE s

\* str::trim
Trim(s) == TrimEnd(TrimStart(s))

\* str::starts_with
StartsWith(s, p) == Len(s) >= Len(p) /\ SubSeq(s, 1, Len(p)) = p

\* s[n..] for a byte offset n (0-based): the text after the first n characters.
SliceFrom(s, n) == SubSeq(s, n + 1, Len(s))

\* str::find: the 1-based position of the first occurrence of p in s, 0 if none.
Find(s, p) ==
    LET hits == {i \in 1..(Len(s) - Len(p) + 1) : SubSeq(s, i, i + Len(p) - 1) = p}
    IN  IF hits = {} THEN 0 ELSE CHOOSE i \in hits : \A j \in hits : i <= j

\* str::contains
Contains(s, p) == Find(s, p) # 0

\* str::splitn(2, p): the first item, and the second item when p occurs.
SplitN2(s, p) ==
    LET i == Find(s, p)
    IN  IF i = 0
        THEN [first |-> s, has_second |-> FALSE, second |-> <<>>]
        ELSE [first |-> SubSeq(s, 1, i - 1), has_second |-> TRUE,
              second |-> SubSeq(s, i + Len(p), Len(s))]

----------------------------------------------------------------------------
(* The literals of interpret_ssh_error.                                    *)

\* The text "ssh: "
S_ssh_prefix ==
    <<"s", "s", "h", ":", " ">>

\* The text "Warning: Permanently added "
S_warning ==
    <<"W", "a", "r", "n", "i", "n", "g", ":", " ", "P", "e", "r", "m", "a", "n", "e", "n", "t", "l", "y", " ", "a", "d", "d", "e", "d", " ">>

\* The text "\r\n"
S_crlf ==
    <<"\r", "\n">>

\* The text ": "
S_sep ==
    <<":", " ">>

\* The text "Could not resolve:"
S_could_not_resolve_colon ==
    <<"C", "o", "u", "l", "d", " ", "n", "o", "t", " ", "r", "e", "s", "o", "l", "v", "e", ":">>

\* The text "Could not resolve"
S_could_not_resolve ==
    <<"C", "o", "u", "l", "d", " ", "n", "o", "t", " ", "r", "e", "s", "o", "l", "v", "e">>

\* The text "Network is unreachable"
S_network_unreachable ==
    <<"N", "e", "t", "w", "o", "r", "k", " ", "i", "s", " ", "u", "n", "r", "e", "a", "c", "h", "a", "b", "l", "e">>

\* The text "Connection refused"
S_connection_refused ==
    <<"C", "o", "n", "n", "e", "c", "t", "i", "o", "n", " ", "r", "e", "f", "u", "s", "e", "d">>

\* The text "Permission denied ("
S_permission_denied ==
    <<"P", "e", "r", "m", "i", "s", "s", "i", "o", "n", " ", "d", "e", "n", "i", "e", "d", " ", "(">>

\* The phase of the macOS heuristic, misspelt.
S_connect_typo ==
    <<"c", "o", "n", "n", "e", "c", "t", " ", "t", "o", " ", " ", "h", "o", "s", "t">>

\* The text "connect to host"
S_connect_to_host ==
    <<"c", "o", "n", "n", "e", "c", "t", " ", "t", "o", " ", "h", "o", "s", "t">>

----------------------------------------------------------------------------
(* Values of type Error and Result<(), Error>.  An io::Error is its kind   *)
(* and its text; every result has the same three fields.                   *)

Ok == [tag |-> "Ok", kind |-> "None", text |-> <<>>]

Disconnected == [tag |-> "Disconnected", kind |-> "None", text |-> <<>>]

\* A connect() call that unwinds instead of returning.
Panicked == [tag |-> "Panic", kind |-> "None", text |-> <<>>]

\* No call has returned yet.
NoResult == [tag |-> "NoResult", kind |-> "None", text |-> <<>>]

\* An io::Error produced by the operating system (spawn, wait, read, tempdir).
OsError(tag) == [tag |-> tag, kind |-> "Os", text |-> <<>>]

\* io::Error::new(kind, text) wrapped in the variant tag.
NewError(tag, kind, text) == [tag |-> tag, kind |-> kind, text |-> text]

----------------------------------------------------------------------------
(* interpret_ssh_error                                                     *)

\* The text left after the optional "ssh: " prefix and the optional
\* "Warning: Permanently added" line have been removed.
StripDiagnostic(stderr) ==
    LET t0 == Trim(stderr)
        t1 == IF StartsWith(t0, S_ssh_prefix) THEN SliceFrom(t0, Len(S_ssh_prefix)) ELSE t0
    IN  IF StartsWith(t1, S_warning)
        THEN LET w == SplitN2(t1, S_crlf)
             IN  IF w.has_second THEN w.second ELSE <<>>
        ELSE t1

\* A default that is the unclassified I/O category.
DefaultKindOther == "Other"

\* `let mut kind = io::ErrorKind::ConnectionAborted`
DefaultKind == "ConnectionAborted"

\* The io::ErrorKind chosen for the stripped text.
ClassifyKind(text) ==
    LET err       == SplitN2(text, S_sep)
        ssh_error == err.first
        kind0     == DefaultKind
        kind1     == IF StartsWith(ssh_error, S_could_not_resolve) THEN "Other" ELSE kind0
    IN  IF ~err.has_second THEN kind1
        ELSE LET io_error == err.second
             IN  IF io_error = S_network_unreachable THEN "Other"
                 ELSE IF io_error = S_connection_refused THEN "ConnectionRefused"
                 ELSE IF Contains(io_error, S_permission_denied)
                      THEN IF StartsWith(ssh_error, S_connect_to_host)
                           THEN "Other"
                           ELSE "PermissionDenied"
                 ELSE kind1

interpret_ssh_error(stderr) ==
    LET text == StripDiagnostic(stderr)
    IN  NewError("Connect", ClassifyKind(text), text)

----------------------------------------------------------------------------
(* Inputs: what the environment (the ssh binary, the operating system)    *)
(* can hand to the program.                                                *)

\* The text "ssh: Could not resolve hostname x: Name or service not known\r\n"
D_resolve ==
    <<"s", "s", "h", ":", " ", "C", "o", "u", "l", "d", " ", "n", "o", "t", " ", "r", "e", "s", "o", "l", "v", "e", " ", "h", "o", "s", "t", "n", "a", "m", "e", " ", "x", ":", " ", "N", "a", "m", "e", " ", "o", "r", " ", "s", "e", "r", "v", "i", "c", "e", " ", "n", "o", "t", " ", "k", "n", "o", "w", "n", "\r", "\n">>

\* The text "ssh: connect to host h port 22: Connection refused\r\n"
D_refused ==
    <<"s", "s", "h", ":", " ", "c", "o", "n", "n", "e", "c", "t", " ", "t", "o", " ", "h", "o", "s", "t", " ", "h", " ", "p", "o", "r", "t", " ", "2", "2", ":", " ", "C", "o", "n", "n", "e", "c", "t", "i", "o", "n", " ", "r", "e", "f", "u", "s", "e", "d", "\r", "\n">>

\* The text "ssh: user@host: Permission denied (publickey).\r\n"
D_denied ==
    <<"s", "s", "h", ":", " ", "u", "s", "e", "r", "@", "h", "o", "s", "t", ":", " ", "P", "e", "r", "m", "i", "s", "s", "i", "o", "n", " ", "d", "e", "n", "i", "e", "d", " ", "(", "p", "u", "b", "l", "i", "c", "k", "e", "y", ")", ".", "\r", "\n">>

\* The text "ssh: connect to host h port 22: Permission denied (publickey)."
D_denied_connect ==
    <<"s", "s", "h", ":", " ", "c", "o", "n", "n", "e", "c", "t", " ", "t", "o", " ", "h", "o", "s", "t", " ", "h", " ", "p", "o", "r", "t", " ", "2", "2", ":", " ", "P", "e", "r", "m", "i", "s", "s", "i", "o", "n", " ", "d", "e", "n", "i", "e", "d", " ", "(", "p", "u", "b", "l", "i", "c", "k", "e", "y", ")", ".">>

\* The text "ssh: Warning: Permanently added 'h' (ECDSA) to the list of known hosts.\r\nuser@host: Permission denied (publickey)."
D_warned ==
    <<"s", "s", "h", ":", " ", "W", "a", "r", "n", "i", "n", "g", ":", " ", "P", "e", "r", "m", "a", "n", "e", "n", "t", "l", "y", " ", "a", "d", "d", "e", "d", " ", "'", "h", "'", " ", "(", "E", "C", "D", "S", "A", ")", " ", "t", "o", " ", "t", "h", "e", " ", "l", "i", "s", "t", " ", "o", "f", " ", "k", "n", "o", "w", "n", " ", "h", "o", "s", "t", "s", ".", "\r", "\n", "u", "s", "e", "r", "@", "h", "o", "s", "t", ":", " ", "P", "e", "r", "m", "i", "s", "s", "i", "o", "n", " ", "d", "e", "n", "i", "e", "d", " ", "(", "p", "u", "b", "l", "i", "c", "k", "e", "y", ")", ".">>

\* The text "ssh: connect to host h port 22: Connection timed out"
D_timeout ==
    <<"s", "s", "h", ":", " ", "c", "o", "n", "n", "e", "c", "t", " ", "t", "o", " ", "h", "o", "s", "t", " ", "h", " ", "p", "o", "r", "t", " ", "2", "2", ":", " ", "C", "o", "n", "n", "e", "c", "t", "i", "o", "n", " ", "t", "i", "m", "e", "d", " ", "o", "u", "t">>

\* The text "  packet_write_wait: Connection to h port 22: Broken pipe\r\n"
M_broken_pipe ==
    <<" ", " ", "p", "a", "c", "k", "e", "t", "_", "w", "r", "i", "t", "e", "_", "w", "a", "i", "t", ":", " ", "C", "o", "n", "n", "e", "c", "t", "i", "o", "n", " ", "t", "o", " ", "h", " ", "p", "o", "r", "t", " ", "2", "2", ":", " ", "B", "r", "o", "k", "e", "n", " ", "p", "i", "p", "e", "\r", "\n">>

\* The text "user@host"
A_user_host ==
    <<"u", "s", "e", "r", "@", "h", "o", "s", "t">>

\* What SessionBuilder::connect is called with.
Destinations == {A_user_host}

\* What the handshake process can write to its stderr.
Diagnostics ==
    {<<>>, D_resolve, D_refused, D_denied, D_denied_connect, D_warned, D_timeout}

\* What the background process can have written to its stderr.
MasterTexts == {<<>>, M_broken_pipe}

\* status.code() of a finished process: a code, or none after a signal.
ExitCodes == {0, 1, ConnErrCode, NoCode}

\* ExitStatus::success
Success(code) == code = 0

\* A sub-command that could not be run.
NotRun == [ran |-> FALSE, code |-> NoCode]

\* What a check call saw of its sub-command: whether it tried to run it,
\* whether it ran, and its exit code.
NotTried == [tried |-> FALSE, ran |-> FALSE, code |-> NoCode]

\* Command::output(): the process could not be run (ran = FALSE), or it ran
\* and exited with a status.
SubOutcomes ==
    {NotRun} \cup {[ran |-> TRUE, code |-> c] : c \in ExitCodes}

\* What one run of the termination routine can meet: the outcome of the exit
\* sub-command, and what waiting on the background process and reading its
\* stderr give.  An input the routine cannot read (the status of a process it
\* does not wait on, a text it does not read) is fixed, so that each behaviour
\* of the routine is listed once.
TermEnvs ==
    {e \in [exit : SubOutcomes, mstatus : ExitCodes, mtext : MasterTexts, readOk : BOOLEAN] :
        /\ (~e.exit.ran \/ Success(e.exit.code)) => e.mstatus = 0
        /\ Success(e.mstatus) => e.readOk
        /\ (Success(e.mstatus) \/ ~e.readOk) => e.mtext = <<>>}

\* What one call of SessionBuilder::connect can meet.
ConnectEnvs ==
    [tempOk : BOOLEAN, spawnOk : BOOLEAN, waitOk : BOOLEAN, code : ExitCodes,
     stderr : Diagnostics, readOk : BOOLEAN]

\* The threads that hold a shared reference to the Session.
Threads == 1..NumThreads

----------------------------------------------------------------------------
(* State.                                                                  *)

VARIABLES
    life,            \* "unborn", "failed" (connect returned no Session), "live", "dropped"
    hs,              \* what connect observed of the handshake process
    connectResult,   \* what connect returned
    ctl,             \* the temporary directory: "none", "exists", "removed"
    addr,            \* Session.addr
    terminated,      \* Session.terminated
    master,          \* Session.master: "absent" (no Session), "some", "empty"
    handle,          \* owner of the Child: "none", "slot", "held", "released"
    pc,              \* per thread: position inside check ("idle", "take", "wait")
    res,             \* per thread: what its last check returned
    seen,            \* per thread: what its last check saw of the check sub-command
    got,             \* per thread: its last check obtained the Child
    exits,           \* number of runs of `ssh -O exit` attempted
    takes,           \* number of take_master_error calls that obtained the Child
    sawEmpty,        \* some take_master_error call found the slot empty
    masterErrs,      \* number of Error::Master values produced from the Child
    closed,          \* close was called
    closeResult,     \* what close returned
    fin,             \* what Drop::drop did
    termResult,      \* what the last direct call of terminate returned
    commands,        \* number of Command builders created
    lastCmd,         \* the arguments of the last Command created
    cmdOnTerminated, \* a Command was created while terminated was true
    fn               \* the last function applied on its own: its name, input and output

vars ==
    <<life, hs, connectResult, ctl, addr, terminated, master, handle, pc, res, seen, got,
      exits, takes, sawEmpty, masterErrs, closed, closeResult, fin, termResult,
      commands, lastCmd, cmdOnTerminated, fn>>

sessionVars == <<terminated, master, handle, exits, takes, sawEmpty, masterErrs>>

threadVars == <<pc, res, seen, got>>

connectVars == <<hs, connectResult, addr>>

NoFin == [ran |-> FALSE, wasTerminated |-> FALSE, exits |-> 0, took |-> FALSE]

NoCmd == [ctl |-> "none", port |-> 0, addr |-> <<>>]

\* No function has been applied on its own.
NoFn == [name |-> "none"]

NoHandshake == [stage |-> "none", code |-> NoCode, stderr |-> <<>>]

Init ==
    /\ life = "unborn"
    /\ hs = NoHandshake
    /\ connectResult = NoResult
    /\ ctl = "none"
    /\ addr = <<>>
    /\ terminated = FALSE
    /\ master = "absent"
    /\ handle = "none"
    /\ pc = [t \in Threads |-> "idle"]
    /\ res = [t \in Threads |-> NoResult]
    /\ seen = [t \in Threads |-> NotTried]
    /\ got = [t \in Threads |-> FALSE]
    /\ exits = 0
    /\ takes = 0
    /\ sawEmpty = FALSE
    /\ masterErrs = 0
    /\ closed = FALSE
    /\ closeResult = NoResult
    /\ fin = NoFin
    /\ termResult = NoResult
    /\ commands = 0
    /\ lastCmd = NoCmd
    /\ cmdOnTerminated = FALSE
    /\ fn = NoFn

----------------------------------------------------------------------------
(* SessionBuilder::connect                                                 *)

\* How far the handshake got.
HandshakeStage(e) ==
    IF ~e.tempOk THEN "tempdir_failed"
    ELSE IF ~e.spawnOk THEN "spawn_failed"
    ELSE IF ~e.waitOk THEN "wait_failed"
    ELSE "exited"

\* The test made as `!status.success()`.
HandshakeFailedNonZero(code) == ~Success(code)

\* The test made against another code than 255.
HandshakeFailedOnOne(code) == code = 1

\* `if let Some(255) = status.code()`
HandshakeFailed(code) == code = ConnErrCode

\* The variant that wraps the io::Error of spawn() and wait().
SpawnErrorTag == "Connect"

\* The variant that wraps the io::Error of tempdir_in().
TempdirErrorTag == "Master"

\* The value connect returns.
ConnectOutcome(e) ==
    LET stage == HandshakeStage(e)
    IN  IF stage = "tempdir_failed" THEN OsError(TempdirErrorTag)
        ELSE IF stage \in {"spawn_failed", "wait_failed"} THEN OsError(SpawnErrorTag)
        ELSE IF HandshakeFailed(e.code)
             THEN IF e.readOk THEN interpret_ssh_error(e.stderr) ELSE Panicked
        ELSE Ok

\* The temporary directory when connect is left: `dir` is moved into the
\* Session on success and dropped, which removes it, on every other path.
DirAfterConnect(e, r) ==
    IF ~e.tempOk THEN "none" ELSE IF r = Ok THEN "exists" ELSE "removed"

\* The Child when connect is left: moved into the Session's slot on success,
\* dropped on every other path after spawn.
ChildAfterConnect(e, r) ==
    IF ~(e.tempOk /\ e.spawnOk) THEN "none" ELSE IF r = Ok THEN "slot" ELSE "released"

connect ==
    /\ life = "unborn"
    /\ \E dest \in Destinations, e \in ConnectEnvs :
        LET r     == ConnectOutcome(e)
            stage == HandshakeStage(e)
        IN  /\ connectResult' = r
            /\ life' = IF r = Ok THEN "live" ELSE "failed"
            /\ hs' = [stage  |-> stage,
                      code   |-> IF stage = "exited" THEN e.code ELSE NoCode,
                      stderr |-> IF stage = "exited" /\ HandshakeFailed(e.code) /\ e.readOk
                                 THEN e.stderr ELSE <<>>]
            /\ ctl' = DirAfterConnect(e, r)
            /\ handle' = ChildAfterConnect(e, r)
            /\ master' = IF r = Ok THEN "some" ELSE "absent"
            /\ addr' = IF r = Ok THEN dest ELSE <<>>
            /\ terminated' = FALSE
    /\ UNCHANGED <<threadVars, exits, takes, sawEmpty, masterErrs, closed, closeResult,
                   fin, termResult, fn, commands, lastCmd, cmdOnTerminated>>

----------------------------------------------------------------------------
(* Session::take_master_error                                              *)

\* No error: the None of Option<Error>.
NoError == [tag |-> "NoError", kind |-> "None", text |-> <<>>]

\* The slot read without being emptied, as a peek in place of take() would.
TakeSlotKeep(m) == [slot |-> m, got |-> m = "some"]

\* `self.master.lock().unwrap().take()`: under the lock, the slot is left
\* empty and its content handed out.  The guard is released at the end of
\* the statement, before the wait.
TakeSlot(m) == [slot |-> IF m = "some" THEN "empty" ELSE m, got |-> m = "some"]

\* A taker that makes no error of the Child, whatever its status.
MasterErrorNever(status, text, readOk) == NoError

\* What the taker makes of the Child: wait on it, and if it failed read its
\* stderr.
MasterError(status, text, readOk) ==
    IF Success(status) THEN NoError
    ELSE IF ~readOk THEN OsError("Master")
    ELSE NewError("Master", "Other", Trim(text))

\* The part of the state the Session's methods work on.
Session ==
    [terminated |-> terminated, master |-> master, handle |-> handle, exits |-> exits,
     takes |-> takes, sawEmpty |-> sawEmpty, masterErrs |-> masterErrs]

\* take_master_error run to its end by a caller with exclusive access.
take_master_error(s, e) ==
    LET k == TakeSlot(s.master)
    IN  IF ~k.got
        THEN [s |-> [s EXCEPT !.sawEmpty = TRUE], err |-> NoError]
        ELSE LET err == MasterError(e.mstatus, e.mtext, e.readOk)
             IN  [s   |-> [s EXCEPT !.master = k.slot,
                                    !.handle = "released",
                                    !.takes = @ + 1,
                                    !.masterErrs = @ + (IF err.tag = "Master" THEN 1 ELSE 0)],
                  err |-> err]

----------------------------------------------------------------------------
(* Session::terminate                                                      *)

\* `if !self.terminated`
TerminateNeeded(term) == ~term

\* The flag after the exit sub-command has been attempted: the `?` on a
\* failure to run it returns before `self.terminated = true`.
TerminatedAfterExit(exit) == exit.ran

terminate(s, e) ==
    IF ~TerminateNeeded(s.terminated) THEN [s |-> s, result |-> Ok]
    ELSE LET s1 == [s EXCEPT !.exits = @ + 1, !.terminated = TerminatedAfterExit(e.exit)]
         IN  IF ~e.exit.ran THEN [s |-> s1, result |-> OsError("Ssh")]
             ELSE IF Success(e.exit.code) THEN [s |-> s1, result |-> Ok]
             ELSE LET t == take_master_error(s1, e)
                  IN  [s      |-> t.s,
                       result |-> IF t.err # NoError THEN t.err ELSE Ok]

----------------------------------------------------------------------------
(* Drop for Session, and the drop of its fields                            *)

\* A finalizer that never runs the termination routine.
DropTerminatesNever(term) == FALSE

\* `if !self.terminated` in Drop::drop
DropTerminates(term) == ~term

\* A directory that is kept when its owner is dropped.
DirKept(c) == c

\* The temporary directory once the Session's fields are dropped: TempDir
\* removes its directory.
DirAfterDrop(c) == IF c = "exists" THEN "removed" ELSE c

\* The Child once the Session's fields are dropped: one still in the slot is
\* dropped with it.
ChildAfterDrop(h) == IF h = "slot" THEN "released" ELSE h

\* Drop::drop: the result of terminate is discarded.
drop(s, e) == IF DropTerminates(s.terminated) THEN terminate(s, e).s ELSE s

\* What Drop::drop did, for a Session in state s left in state s2.
FinOf(s, s2) ==
    [ran |-> TRUE, wasTerminated |-> s.terminated, exits |-> s2.exits - s.exits,
     took |-> s2.takes > s.takes]

AllIdle == \A t \in Threads : pc[t] = "idle"

\* The Session goes out of scope without close.
drop_session ==
    /\ life = "live"
    /\ AllIdle
    /\ \E e \in TermEnvs :
        LET s2 == drop(Session, e)
        IN  /\ terminated' = s2.terminated
            /\ master' = s2.master
            /\ handle' = ChildAfterDrop(s2.handle)
            /\ exits' = s2.exits
            /\ takes' = s2.takes
            /\ sawEmpty' = s2.sawEmpty
            /\ masterErrs' = s2.masterErrs
            /\ fin' = FinOf(Session, s2)
    /\ life' = "dropped"
    /\ ctl' = DirAfterDrop(ctl)
    /\ UNCHANGED <<connectVars, threadVars, closed, closeResult, termResult, fn, commands,
                   lastCmd, cmdOnTerminated>>

----------------------------------------------------------------------------
(* Session::close                                                          *)

\* A close that borrows the Session and leaves it usable.
LifeAfterBorrowingClose == "live"

\* close(mut self) takes the Session by value: when it returns, the Session
\* has been dropped and no method can be called on it.
LifeAfterClose == "dropped"

close ==
    /\ life = "live"
    /\ AllIdle
    /\ \E e1 \in TermEnvs :
        \E e2 \in IF DropTerminates(terminate(Session, e1).s.terminated)
                  THEN TermEnvs ELSE {e1} :
        LET r  == terminate(Session, e1)
            s2 == drop(r.s, e2)
        IN  /\ closeResult' = r.result
            /\ terminated' = s2.terminated
            /\ master' = s2.master
            /\ handle' = IF LifeAfterClose = "dropped" THEN ChildAfterDrop(s2.handle)
                         ELSE s2.handle
            /\ exits' = s2.exits
            /\ takes' = s2.takes
            /\ sawEmpty' = s2.sawEmpty
            /\ masterErrs' = s2.masterErrs
            /\ fin' = FinOf(r.s, s2)
    /\ closed' = TRUE
    /\ life' = LifeAfterClose
    /\ ctl' = IF LifeAfterClose = "dropped" THEN DirAfterDrop(ctl) ELSE ctl
    /\ UNCHANGED <<connectVars, threadVars, termResult, fn, commands, lastCmd,
                   cmdOnTerminated>>

----------------------------------------------------------------------------
(* Session::check, in the steps between which other threads can run        *)

\* A check that does not look at the flag.
CheckRefusedNever(term) == FALSE

\* `if self.terminated { return Err(Error::Disconnected) }`
CheckRefused(term) == term

\* An inspection on every exit code other than zero.
CheckInspectsNonZero(code) == code # 0

\* `if let Some(255) = check.status.code()`
CheckInspects(code) == code = ConnErrCode

\* The call, up to the end of the check sub-command.
check_call(t) ==
    /\ life = "live"
    /\ pc[t] = "idle"
    /\ got' = [got EXCEPT ![t] = FALSE]
    /\ IF CheckRefused(terminated)
       THEN /\ res' = [res EXCEPT ![t] = Disconnected]
            /\ seen' = [seen EXCEPT ![t] = NotTried]
            /\ pc' = pc
       ELSE \E o \in SubOutcomes :
            /\ seen' = [seen EXCEPT ![t] = [tried |-> TRUE, ran |-> o.ran, code |-> o.code]]
            /\ IF ~o.ran
               THEN res' = [res EXCEPT ![t] = OsError("Ssh")] /\ pc' = pc
               ELSE IF CheckInspects(o.code)
               THEN res' = [res EXCEPT ![t] = NoResult] /\ pc' = [pc EXCEPT ![t] = "take"]
               ELSE res' = [res EXCEPT ![t] = Ok] /\ pc' = pc
    /\ UNCHANGED <<life, connectVars, ctl, sessionVars, closed, closeResult, fin,
                   termResult, fn, commands, lastCmd, cmdOnTerminated>>

\* take_master_error, the statement that takes the Child out of the slot.
check_take(t) ==
    /\ pc[t] = "take"
    /\ LET k == TakeSlot(master)
       IN  /\ master' = k.slot
           /\ IF k.got
              THEN /\ handle' = "held"
                   /\ takes' = takes + 1
                   /\ got' = [got EXCEPT ![t] = TRUE]
                   /\ pc' = [pc EXCEPT ![t] = "wait"]
                   /\ UNCHANGED <<res, sawEmpty>>
              ELSE /\ sawEmpty' = TRUE
                   /\ res' = [res EXCEPT ![t] = Disconnected]
                   /\ pc' = [pc EXCEPT ![t] = "idle"]
                   /\ UNCHANGED <<handle, takes, got>>
    /\ UNCHANGED <<life, connectVars, ctl, terminated, exits, masterErrs, seen, closed,
                   closeResult, fin, termResult, fn, commands, lastCmd, cmdOnTerminated>>

\* take_master_error, the wait on the Child and the reading of its stderr,
\* and the return of check.
check_wait(t) ==
    /\ pc[t] = "wait"
    /\ \E st \in ExitCodes, text \in MasterTexts, readOk \in BOOLEAN :
        LET err == MasterError(st, text, readOk)
        IN  /\ res' = [res EXCEPT ![t] = IF err # NoError THEN err ELSE Disconnected]
            /\ masterErrs' = masterErrs + (IF err.tag = "Master" THEN 1 ELSE 0)
    /\ handle' = "released"
    /\ pc' = [pc EXCEPT ![t] = "idle"]
    /\ UNCHANGED <<life, connectVars, ctl, terminated, master, exits, takes, sawEmpty,
                   seen, got, closed, closeResult, fin, termResult, fn, commands, lastCmd,
                   cmdOnTerminated>>

----------------------------------------------------------------------------
(* Session::command                                                        *)

\* The port every Command is given ("-p 9").
DiscardPort == 9

command ==
    /\ life = "live"
    /\ commands < MaxCommands
    /\ commands' = commands + 1
    /\ lastCmd' = [ctl |-> ctl, port |-> DiscardPort, addr |-> addr]
    /\ cmdOnTerminated' = (cmdOnTerminated \/ terminated)
    /\ UNCHANGED <<life, connectVars, ctl, sessionVars, threadVars, closed, closeResult,
                   fin, termResult, fn>>

----------------------------------------------------------------------------
(* A direct call of the private terminate(&mut self) from inside the crate *)

terminate_call ==
    /\ life = "live"
    /\ AllIdle
    /\ exits < MaxExits
    /\ \E e \in TermEnvs :
        LET r == terminate(Session, e)
        IN  /\ termResult' = r.result
            /\ terminated' = r.s.terminated
            /\ master' = r.s.master
            /\ handle' = r.s.handle
            /\ exits' = r.s.exits
            /\ takes' = r.s.takes
            /\ sawEmpty' = r.s.sawEmpty
            /\ masterErrs' = r.s.masterErrs
    /\ UNCHANGED <<life, connectVars, ctl, threadVars, closed, closeResult, fin,
                   commands, lastCmd, cmdOnTerminated, fn>>

----------------------------------------------------------------------------
(* Functions applied on their own: the inputs are composed from parts, so  *)
(* that what a function is expected to make of a text is known from the    *)
(* parts and not from the function.                                        *)

\* The text "\n"
S_lf ==
    <<"\n">>

\* The text "Warning: Permanently added 'h' (ECDSA) to the list of known hosts."
W_line ==
    <<"W", "a", "r", "n", "i", "n", "g", ":", " ", "P", "e", "r", "m", "a", "n", "e", "n", "t", "l", "y", " ", "a", "d", "d", "e", "d", " ", "'", "h", "'", " ", "(", "E", "C", "D", "S", "A", ")", " ", "t", "o", " ", "t", "h", "e", " ", "l", "i", "s", "t", " ", "o", "f", " ", "k", "n", "o", "w", "n", " ", "h", "o", "s", "t", "s", ".">>

\* The text "Could not resolve hostname x"
P_resolve ==
    <<"C", "o", "u", "l", "d", " ", "n", "o", "t", " ", "r", "e", "s", "o", "l", "v", "e", " ", "h", "o", "s", "t", "n", "a", "m", "e", " ", "x">>

\* The text "connect to host h port 22"
P_connect ==
    <<"c", "o", "n", "n", "e", "c", "t", " ", "t", "o", " ", "h", "o", "s", "t", " ", "h", " ", "p", "o", "r", "t", " ", "2", "2">>

\* The text "user@host"
P_userhost ==
    <<"u", "s", "e", "r", "@", "h", "o", "s", "t">>

\* The text "Name or service not known"
E_name ==
    <<"N", "a", "m", "e", " ", "o", "r", " ", "s", "e", "r", "v", "i", "c", "e", " ", "n", "o", "t", " ", "k", "n", "o", "w", "n">>

\* The text "Connection timed out"
E_timeout ==
    <<"C", "o", "n", "n", "e", "c", "t", "i", "o", "n", " ", "t", "i", "m", "e", "d", " ", "o", "u", "t">>

\* The text "Permission denied (publickey)."
E_denied ==
    <<"P", "e", "r", "m", "i", "s", "s", "i", "o", "n", " ", "d", "e", "n", "i", "e", "d", " ", "(", "p", "u", "b", "l", "i", "c", "k", "e", "y", ")", ".">>

\* The first part of a diagnostic, before the first ": ".
Phases == {<<>>, P_resolve, P_connect, P_userhost}

\* The second part of a diagnostic, after the first ": ", when there is one.
Details ==
    {[has |-> FALSE, text |-> <<>>]} \cup
    {[has |-> TRUE, text |-> d] :
        d \in {E_name, S_connection_refused, S_network_unreachable, E_denied, E_timeout}}

\* The parts of a stderr text given to interpret_ssh_error: an optional
\* "ssh: " prefix, an optional "Warning: Permanently added" line with its line
\* terminator (or none), and the remainder: what it begins with, a phase, an
\* optional detail and what trails it.
ClassifierInputs ==
    {i \in [prefix : {<<>>, S_ssh_prefix}, warn : BOOLEAN, term : {<<>>, S_crlf, S_lf},
            rlead : {<<>>, S_ssh_prefix, <<" ">>}, phase : Phases, detail : Details,
            tail : {<<>>, S_crlf}] :
        ~i.warn => i.term = <<>>}

\* The diagnostic proper: the phase, and the detail after ": ".
Body(i) == IF i.detail.has THEN i.phase \o S_sep \o i.detail.text ELSE i.phase

\* The remainder of the text after the warning line.
Remainder(i) == i.rlead \o Body(i) \o i.tail

\* The whole text.
TextOf(i) == i.prefix \o (IF i.warn THEN W_line \o i.term ELSE <<>>) \o Remainder(i)

\* interpret_ssh_error applied to a text.
classify ==
    /\ fn = NoFn
    /\ \E i \in ClassifierInputs :
        fn' = [name |-> "interpret_ssh_error", in |-> i, text |-> TextOf(i),
               out |-> interpret_ssh_error(TextOf(i))]
    /\ UNCHANGED <<life, connectVars, ctl, sessionVars, threadVars, closed, closeResult,
                   fin, termResult, commands, lastCmd, cmdOnTerminated>>

----------------------------------------------------------------------------
(* Session::connect: the destination text translated into builder options. *)

\* The largest value of the type u16 of a port.
U16Max == 65535

\* str::find under the name of rfind: the first occurrence instead of the last.
RFindFirst(s, p) ==
    LET hits == {i \in 1..(Len(s) - Len(p) + 1) : SubSeq(s, i, i + Len(p) - 1) = p}
    IN  IF hits = {} THEN 0 ELSE CHOOSE i \in hits : \A j \in hits : i <= j

\* str::rfind: the 1-based position of the last occurrence of p in s, 0 if none.
RFind(s, p) ==
    LET hits == {i \in 1..(Len(s) - Len(p) + 1) : SubSeq(s, i, i + Len(p) - 1) = p}
    IN  IF hits = {} THEN 0 ELSE CHOOSE i \in hits : \A j \in hits : i >= j

\* The decimal digits in order: Digits[d + 1] is the digit of value d.
Digits == <<"0", "1", "2", "3", "4", "5", "6", "7", "8", "9">>

\* char::to_digit(10) of a decimal digit.
DigitVal(c) == (CHOOSE k \in 1..Len(Digits) : Digits[k] = c) - 1

IsDigit(c) == \E k \in 1..Len(Digits) : Digits[k] = c

\* The number written by a sequence of decimal digits.
RECURSIVE DecimalValue(_)
DecimalValue(s) ==
    IF s = <<>> THEN 0
    ELSE DecimalValue(SubSeq(s, 1, Len(s) - 1)) * 10 + DigitVal(s[Len(s)])

\* A parse into a number of any width: no upper limit on the value.
ParseAnyWidth(s) ==
    LET digits == IF s # <<>> /\ Head(s) = "+" THEN Tail(s) ELSE s
    IN  IF /\ digits # <<>>
           /\ \A k \in 1..Len(digits) : IsDigit(digits[k])
        THEN [ok |-> TRUE, val |-> DecimalValue(digits)]
        ELSE [ok |-> FALSE, val |-> 0]

\* str::parse::<u16>: an optional "+", then one digit or more, and a value
\* that fits the type; everything else is an error.
ParseU16(s) ==
    LET digits == IF s # <<>> /\ Head(s) = "+" THEN Tail(s) ELSE s
    IN  IF /\ digits # <<>>
           /\ \A k \in 1..Len(digits) : IsDigit(digits[k])
           /\ DecimalValue(digits) <= U16Max
        THEN [ok |-> TRUE, val |-> DecimalValue(digits)]
        ELSE [ok |-> FALSE, val |-> 0]

\* format!("{}", n) of an unsigned number: its decimal digits, no leading zero.
RECURSIVE FormatNat(_)
FormatNat(n) ==
    IF n < 10 THEN <<Digits[n + 1]>>
    ELSE FormatNat(n \div 10) \o <<Digits[(n % 10) + 1]>>

\* Option<String>
None == [has |-> FALSE, text |-> <<>>]

Some(s) == [has |-> TRUE, text |-> s]

\* The empty text in the place of the scheme: every destination starts with it.
S_scheme_any ==
    <<>>

\* The text "ssh://"
S_scheme ==
    <<"s", "s", "h", ":", "/", "/">>

\* The text "@"
S_at ==
    <<"@">>

\* The text ":"
S_colon ==
    <<":">>

\* SessionBuilder::port
port(p) == Some(FormatNat(p))

\* Session::connect up to the call of SessionBuilder::connect: the user and
\* the port set on the builder, and the destination handed to it.
Session_connect(destination) ==
    LET schemed == StartsWith(destination, S_scheme)
        d1 == SliceFrom(destination, Len(S_scheme))
        at == Find(d1, S_at)
        d2 == IF at # 0 THEN SliceFrom(d1, at) ELSE d1
        colon == RFind(d2, S_colon)
        p == ParseU16(SliceFrom(d2, colon))
    IN  IF ~schemed
        THEN [user |-> None, port |-> None, destination |-> destination]
        ELSE [user |-> IF at # 0 THEN Some(SubSeq(d1, 1, at - 1)) ELSE None,
              port |-> IF colon # 0 /\ p.ok THEN port(p.val) ELSE None,
              destination |-> IF colon # 0 /\ p.ok THEN SubSeq(d2, 1, colon - 1) ELSE d2]

\* The text "alice"
U_alice ==
    <<"a", "l", "i", "c", "e">>

\* The text "bob"
U_bob ==
    <<"b", "o", "b">>

\* The text "a"
U_a ==
    <<"a">>

\* The text "b"
U_b ==
    <<"b">>

\* The text "example.com"
H_example ==
    <<"e", "x", "a", "m", "p", "l", "e", ".", "c", "o", "m">>

\* The text "[::1]"
H_v6 ==
    <<"[", ":", ":", "1", "]">>

\* The text "2222"
N_2222 ==
    <<"2", "2", "2", "2">>

\* The text "+22"
N_plus22 ==
    <<"+", "2", "2">>

\* The text "0022"
N_0022 ==
    <<"0", "0", "2", "2">>

\* The text "65535"
N_65535 ==
    <<"6", "5", "5", "3", "5">>

\* The text "65536"
N_65536 ==
    <<"6", "5", "5", "3", "6">>

\* The text "abc"
N_abc ==
    <<"a", "b", "c">>

\* The user names before the host, each followed by "@": none, one, or two
\* (a user name that itself holds an "@").
UserLists == {<<>>, <<U_alice>>, <<U_bob>>, <<U_a, U_b>>}

Hosts == {H_example, H_v6}

\* What follows the host: nothing, or ":" and a text.
PortParts == {None} \cup {Some(n) : n \in {<<>>, N_2222, N_plus22, N_0022, N_65535, N_65536, N_abc}}

\* The parts of a destination given to Session::connect.
DestinationInputs == [scheme : BOOLEAN, users : UserLists, host : Hosts, port : PortParts]

\* The user names, each followed by "@".
RECURSIVE UsersText(_)
UsersText(us) ==
    IF us = <<>> THEN <<>> ELSE Head(us) \o S_at \o UsersText(Tail(us))

\* The destination without its scheme.
AfterScheme(i) ==
    UsersText(i.users) \o i.host \o (IF i.port.has THEN S_colon \o i.port.text ELSE <<>>)

\* The whole destination.
DestinationOf(i) == (IF i.scheme THEN S_scheme ELSE <<>>) \o AfterScheme(i)

\* Session::connect applied to a destination.
session_connect ==
    /\ fn = NoFn
    /\ \E i \in DestinationInputs :
        fn' = [name |-> "Session::connect", in |-> i, text |-> DestinationOf(i),
               out |-> Session_connect(DestinationOf(i))]
    /\ UNCHANGED <<life, connectVars, ctl, sessionVars, threadVars, closed, closeResult,
                   fin, termResult, commands, lastCmd, cmdOnTerminated>>

----------------------------------------------------------------------------
(* Session::terminate and Session::check run from their first line to     *)
(* their return on a Session no other thread touches meanwhile.            *)

\* The Sessions a method can be called on: terminated or not, the Child in
\* its slot or taken from it by an earlier inspection.
Sessions ==
    {[terminated |-> t, master |-> m,
      handle |-> IF m = "some" THEN "slot" ELSE "released",
      exits |-> IF t THEN 1 ELSE 0,
      takes |-> IF m = "some" THEN 0 ELSE 1,
      sawEmpty |-> FALSE, masterErrs |-> 0] : t \in BOOLEAN, m \in {"some", "empty"}}

\* What one run of check can meet: the outcome of the check sub-command, and
\* what waiting on the background process and reading its stderr give.
CheckEnvs ==
    {e \in [sub : SubOutcomes, mstatus : ExitCodes, mtext : MasterTexts, readOk : BOOLEAN] :
        /\ Success(e.mstatus) => e.readOk
        /\ (Success(e.mstatus) \/ ~e.readOk) => e.mtext = <<>>}

\* Session::check
check(s, e) ==
    IF CheckRefused(s.terminated) THEN [s |-> s, result |-> Disconnected]
    ELSE IF ~e.sub.ran THEN [s |-> s, result |-> OsError("Ssh")]
    ELSE IF CheckInspects(e.sub.code)
         THEN LET t == take_master_error(s, e)
              IN  [s |-> t.s, result |-> IF t.err # NoError THEN t.err ELSE Disconnected]
         ELSE [s |-> s, result |-> Ok]

\* Session::terminate applied to a Session.
apply_terminate ==
    /\ fn = NoFn
    /\ \E s \in Sessions, e \in TermEnvs :
        fn' = [name |-> "terminate", s |-> s, e |-> e, out |-> terminate(s, e)]
    /\ UNCHANGED <<life, connectVars, ctl, sessionVars, threadVars, closed, closeResult,
                   fin, termResult, commands, lastCmd, cmdOnTerminated>>

\* Session::check applied to a Session.
apply_check ==
    /\ fn = NoFn
    /\ \E s \in Sessions, e \in CheckEnvs :
        fn' = [name |-> "check", s |-> s, e |-> e, out |-> check(s, e)]
    /\ UNCHANGED <<life, connectVars, ctl, sessionVars, threadVars, closed, closeResult,
                   fin, termResult, commands, lastCmd, cmdOnTerminated>>

----------------------------------------------------------------------------
(* Specifications                                                          *)

\* The Session used through its public interface.
Next ==
    \/ connect
    \/ \E t \in Threads : check_call(t)
    \/ \E t \in Threads : check_take(t)
    \/ \E t \in Threads : check_wait(t)
    \/ command
    \/ close
    \/ drop_session

Spec == Init /\ [][Next]_vars

\* The Session in the hands of code of the crate, which can also call
\* terminate directly and go on using the Session afterwards.  The end of the
\* Session (close, drop) is left to Spec.
NextInner ==
    \/ connect
    \/ \E t \in Threads : check_call(t)
    \/ \E t \in Threads : check_take(t)
    \/ \E t \in Threads : check_wait(t)
    \/ command
    \/ terminate_call

SpecInner == Init /\ [][NextInner]_vars

\* The functions applied on their own to inputs drawn from bounded sets.
NextFn ==
    \/ classify
    \/ session_connect
    \/ apply_terminate
    \/ apply_check

SpecFn == Init /\ [][NextFn]_vars

----------------------------------------------------------------------------
(* Claims                                                                  *)

\* The threads whose last check saw the check sub-command exit with 255 and
\* has returned.
Returned255 == {t \in Threads : pc[t] = "idle" /\ seen[t].ran /\ seen[t].code = ConnErrCode}

\* C1: over the whole life of one Session the exit sub-command (`ssh -O
\* exit`) is attempted at most once, also when the first attempt could not
\* be run.
C1_ExitAttemptedAtMostOnce == exits <= 1

\* C2: the Child is taken out of its slot at most once: at most one call of
\* take_master_error has obtained it, the slot is empty from then on, and an
\* Error::Master exists only for a call that obtained the Child, so no later
\* call returns one.
C2_HandleTakenAtMostOnce ==
    /\ takes <= 1
    /\ masterErrs <= takes
    /\ (takes >= 1 => master = "empty" /\ handle \in {"held", "released"})
    /\ (life \in {"live", "dropped"} /\ takes = 0 => master = "some")
    /\ \A t \in Threads : res[t].tag = "Master" => got[t]

\* C2 witness: after one call obtained the Child, a later call found the slot
\* empty, and the Session has reached its end.
C2_Witness == takes = 1 /\ sawEmpty /\ life = "dropped"

\* C3: when several threads call check concurrently and every check
\* sub-command exits with 255, exactly one call obtains the Child and the
\* error derived from it, every other caller finds the slot empty and returns
\* Disconnected, and no two callers wait on the same Child.
C3_ConcurrentCheckOneTaker ==
    /\ Cardinality({t \in Threads : pc[t] = "wait"}) <= 1
    /\ Cardinality({t \in Threads : got[t]}) <= 1
    /\ (Returned255 # {} => takes = 1)
    /\ \A t \in Returned255 :
        IF got[t]
        THEN res[t].tag \in {"Master", "Disconnected"}
        ELSE res[t] = Disconnected
    /\ \A t \in Threads : pc[t] = "wait" => got[t] /\ handle = "held"

\* C3 witness: two checks overlap after both sub-commands exited with 255:
\* one thread holds the Child and is still waiting on it, while another has
\* found the slot empty and already returned Disconnected.
C3_Witness ==
    \E t \in Threads, u \in Threads :
        /\ pc[t] = "wait" /\ got[t]
        /\ u \in Returned255 /\ ~got[u] /\ res[u] = Disconnected

\* C4: whenever the terminated flag is true, check returns Disconnected
\* without running any sub-command and without touching the slot of the
\* Child; it never returns success.
C4_CheckAfterTermination ==
    [][\A t \in Threads :
        (terminated /\ check_call(t)) =>
            /\ res'[t] = Disconnected
            /\ ~seen'[t].tried
            /\ ~got'[t]
            /\ pc'[t] = "idle"
            /\ UNCHANGED sessionVars]_vars

\* C4 witness: on a Session that is terminated and still usable, a check has
\* returned Disconnected without having tried its sub-command.
C4_Witness ==
    /\ terminated /\ life = "live"
    /\ \E t \in Threads : pc[t] = "idle" /\ res[t] = Disconnected /\ ~seen[t].tried

\* C5: once the terminated flag is true no Command can be created through
\* the Session: the flag is only ever true of a Session that close or the
\* finalizer has consumed, on which command cannot be called.
C5_NoCommandAfterTermination ==
    /\ terminated => life = "dropped" /\ ~ENABLED command
    /\ ~cmdOnTerminated
    /\ lastCmd # NoCmd => lastCmd.ctl = "exists"

\* C5 witness: a Session on which a Command could still have been created
\* (the cap is not reached) has been closed and is terminated.
C5_Witness == terminated /\ closed /\ life = "dropped" /\ commands < MaxCommands

C7_NonZeroIsSshError ==
    /\ (hs.stage = "exited" /\ hs.code \notin {0, ConnErrCode, NoCode}) =>
        connectResult.tag = "Ssh" /\ life = "failed"
    /\ connectResult = Ok => Success(hs.code)

\* C7 as amended: connect fails on the exit status only when the code is 255;
\* for every other status of the handshake process (zero, a non-zero code
\* other than 255, death by a signal) it returns Ok and constructs a Session
\* that owns the directory and the Child; and a Session is constructed
\* exactly when the process was spawned and waited on and its code is not 255.
C7_OnlyCode255Fails ==
    /\ (hs.stage = "exited" /\ hs.code # ConnErrCode) =>
        /\ connectResult = Ok
        /\ life \in {"live", "dropped"}
        /\ master \in {"some", "empty"}
        /\ handle # "none"
    /\ connectResult = Ok <=> (hs.stage = "exited" /\ hs.code # ConnErrCode)
    /\ life \in {"live", "dropped"} <=> connectResult = Ok

\* C7 witness: the handshake exited with code 1 and a live Session holds the
\* Child.
C7_Witness ==
    /\ hs.stage = "exited" /\ hs.code = 1
    /\ connectResult = Ok /\ life = "live" /\ master = "some" /\ handle = "slot"

\* C8: a failure to spawn or to wait on the handshake process makes connect
\* return Error::Ssh, not Error::Connect; a failure to allocate the temporary
\* directory makes it return Error::Master without spawning anything.
C8_SpawnFailureIsSshError ==
    /\ hs.stage \in {"spawn_failed", "wait_failed"} => connectResult.tag = "Ssh"
    /\ hs.stage = "tempdir_failed" => connectResult.tag = "Master" /\ handle = "none"

\* C9: the temporary directory does not outlive its owner: it is removed when
\* connect returns an error, and when the Session is closed or dropped,
\* whatever the termination routine returned; it exists as long as the
\* Session lives.
C9_DirectoryRemoved ==
    /\ life = "failed" => ctl = (IF hs.stage = "tempdir_failed" THEN "none" ELSE "removed")
    /\ life = "dropped" => ctl = "removed"
    /\ life = "live" => ctl = "exists"
    /\ life = "unborn" => ctl = "none"

\* C9 witness: close returned an Error::Master and the directory is gone.
C9_Witness == life = "dropped" /\ closeResult.tag = "Master" /\ ctl = "removed"

----------------------------------------------------------------------------
(* Claims about interpret_ssh_error and Session::connect                   *)

\* The text "ssh: Could not resolve hostname x: Name or service not known"
L_resolve ==
    <<"s", "s", "h", ":", " ", "C", "o", "u", "l", "d", " ", "n", "o", "t", " ", "r", "e", "s", "o", "l", "v", "e", " ", "h", "o", "s", "t", "n", "a", "m", "e", " ", "x", ":", " ", "N", "a", "m", "e", " ", "o", "r", " ", "s", "e", "r", "v", "i", "c", "e", " ", "n", "o", "t", " ", "k", "n", "o", "w", "n">>

\* The text "ssh: connect to host h port 22: Connection refused"
L_refused ==
    <<"s", "s", "h", ":", " ", "c", "o", "n", "n", "e", "c", "t", " ", "t", "o", " ", "h", "o", "s", "t", " ", "h", " ", "p", "o", "r", "t", " ", "2", "2", ":", " ", "C", "o", "n", "n", "e", "c", "t", "i", "o", "n", " ", "r", "e", "f", "u", "s", "e", "d">>

\* The text "ssh: user@host: Permission denied (publickey)."
L_denied ==
    <<"s", "s", "h", ":", " ", "u", "s", "e", "r", "@", "h", "o", "s", "t", ":", " ", "P", "e", "r", "m", "i", "s", "s", "i", "o", "n", " ", "d", "e", "n", "i", "e", "d", " ", "(", "p", "u", "b", "l", "i", "c", "k", "e", "y", ")", ".">>

\* The text "ssh: connect to host h port 22: Permission denied (publickey)."
L_denied_connect ==
    <<"s", "s", "h", ":", " ", "c", "o", "n", "n", "e", "c", "t", " ", "t", "o", " ", "h", "o", "s", "t", " ", "h", " ", "p", "o", "r", "t", " ", "2", "2", ":", " ", "P", "e", "r", "m", "i", "s", "s", "i", "o", "n", " ", "d", "e", "n", "i", "e", "d", " ", "(", "p", "u", "b", "l", "i", "c", "k", "e", "y", ")", ".">>

\* interpret_ssh_error has been applied.
Classified == fn.name = "interpret_ssh_error"

\* C11 as claimed: the classifier maps L_resolve to the unclassified I/O kind
\* (Other), L_refused to ConnectionRefused, L_denied to PermissionDenied, and
\* L_denied_connect to the generic-aborted kind (ConnectionAborted).
C11_LiteralsAsClaimed ==
    Classified =>
        /\ fn.text = L_resolve => fn.out.kind = "Other"
        /\ fn.text = L_refused => fn.out.kind = "ConnectionRefused"
        /\ fn.text = L_denied => fn.out.kind = "PermissionDenied"
        /\ fn.text = L_denied_connect => fn.out.kind = "ConnectionAborted"

\* C11 as amended: L_resolve maps to the unclassified I/O kind (Other),
\* L_refused to ConnectionRefused, L_denied to PermissionDenied, and
\* L_denied_connect to the unclassified I/O kind (Other) as well: neither
\* PermissionDenied nor the default ConnectionAborted.
C11_LiteralKinds ==
    Classified =>
        /\ fn.out.tag = "Connect"
        /\ fn.text = L_resolve => fn.out.kind = "Other"
        /\ fn.text = L_refused => fn.out.kind = "ConnectionRefused"
        /\ fn.text = L_denied => fn.out.kind = "PermissionDenied"
        /\ fn.text = L_denied_connect => fn.out.kind = "Other"

\* C11 witness: the classifier was given L_denied_connect and made an error
\* of kind Other of it.
C11_Witness == Classified /\ fn.text = L_denied_connect /\ fn.out.kind = "Other"

\* C12: for every text that starts, after the optional "ssh: " prefix, with
\* a "Warning: Permanently added" line followed by a remainder R, whatever
\* line terminator ends the warning and whatever R begins with, the
\* classifier returns the kind it returns for R alone and carries R verbatim
\* as the text of the error.  R is taken without white space around it,
\* which the classifier trims from every text.
C12_WarningLineStripped ==
    (Classified /\ fn.in.warn /\ fn.in.term # <<>> /\ Trim(Remainder(fn.in)) = Remainder(fn.in)) =>
        /\ fn.out.kind = interpret_ssh_error(Remainder(fn.in)).kind
        /\ fn.out.text = Remainder(fn.in)

\* The text "22"
N_22 ==
    <<"2", "2">>

Parsed == fn.name = "Session::connect"

\* The user names of a destination as one text, the "@" between them kept:
\* the text before the last "@".
RECURSIVE Joined(_)
Joined(us) ==
    IF Len(us) = 1 THEN Head(us) ELSE Head(us) \o S_at \o Joined(Tail(us))

\* The decimal numeral of the port a valid port text denotes.
Numeral(t) ==
    CASE t = N_2222 -> N_2222
      [] t = N_plus22 -> N_22
      [] t = N_0022 -> N_22
      [] t = N_65535 -> N_65535

\* C13: Session::connect on a destination ssh://[user@]host[:port] strips the
\* scheme, takes as user the text before the last "@" and as port the
\* numeric text after the last ":", and passes the remaining host as the
\* destination.
C13_LastAtAndColon ==
    (Parsed /\ fn.in.scheme /\ (fn.in.port.has => fn.in.port.text \in {N_2222, N_65535})) =>
        /\ fn.out.user = IF fn.in.users = <<>> THEN None ELSE Some(Joined(fn.in.users))
        /\ fn.out.port = fn.in.port
        /\ fn.out.destination = fn.in.host

\* C13 (amended): Session::connect on a destination ssh://[user@]host[:port]
\* strips the scheme, takes as user the text before the first "@", as port
\* the number written after the last ":" when it is a valid port, and passes
\* what lies between the two as the destination; "ssh://alice@example.com:2222"
\* yields user alice, host example.com, port 2222.
C13_FirstAtAndColon ==
    (Parsed /\ fn.in.scheme /\ (fn.in.port.has => fn.in.port.text \in {N_2222, N_plus22, N_0022, N_65535})) =>
        /\ fn.out.user = IF fn.in.users = <<>> THEN None ELSE Some(Head(fn.in.users))
        /\ fn.out.port = IF fn.in.port.has THEN Some(Numeral(fn.in.port.text)) ELSE None
        /\ fn.out.destination =
              IF fn.in.users = <<>> THEN fn.in.host
              ELSE UsersText(Tail(fn.in.users)) \o fn.in.host

C13_Witness ==
    /\ Parsed
    /\ fn.text = S_scheme \o U_alice \o S_at \o H_example \o S_colon \o N_2222
    /\ fn.out = [user |-> Some(U_alice), port |-> Some(N_2222), destination |-> H_example]

\* C14: Session::connect on a destination user@host without the ssh://
\* scheme parses it to that user and that host, with no port override:
\* "bob@example.com" yields user bob and host example.com.
C14_UserAndHostParsed ==
    (Parsed /\ ~fn.in.scheme /\ Len(fn.in.users) = 1 /\ ~fn.in.port.has) =>
        /\ fn.out.user = Some(Head(fn.in.users))
        /\ fn.out.destination = fn.in.host
        /\ fn.out.port = None

\* C14 (amended): Session::connect on a destination without the ssh://
\* scheme parses nothing: it sets no user and no port and passes the whole
\* text as the destination, so "bob@example.com" reaches ssh unchanged.
C14_NoSchemeNothingParsed ==
    (Parsed /\ ~fn.in.scheme) =>
        fn.out = [user |-> None, port |-> None, destination |-> fn.text]

C14_Witness ==
    /\ Parsed
    /\ fn.text = U_bob \o S_at \o H_example
    /\ fn.out = [user |-> None, port |-> None, destination |-> U_bob \o S_at \o H_example]

\* C15: after a call to the termination routine on a non-terminated Session
\* returns, the terminated flag is true whatever the outcome, also when the
\* exit sub-command could not be run; a later call is therefore a no-op: each
\* step that attempts the exit sub-command is the first one and leaves the
\* flag true.
C15_TerminatedWhateverTheOutcome ==
    [][exits' > exits => (exits = 0 /\ terminated')]_vars

\* C16: the result of the termination routine on a non-terminated Session
\* whose exit sub-command ran is success if the sub-command reported success;
\* if it reported failure, it is a background-process error (Error::Master)
\* carrying the captured diagnostic when the handle was still in its slot and
\* the background process exited with failure, and success when the handle
\* was in its slot and the process exited successfully, or when the handle
\* had already been taken.
C16_TerminateResult ==
    (fn.name = "terminate" /\ ~fn.s.terminated /\ fn.e.exit.ran) =>
        IF Success(fn.e.exit.code) THEN fn.out.result = Ok
        ELSE IF fn.s.master = "some" /\ ~Success(fn.e.mstatus)
             THEN /\ fn.out.result.tag = "Master"
                  /\ fn.e.readOk => fn.out.result = NewError("Master", "Other", Trim(fn.e.mtext))
             ELSE fn.out.result = Ok

C16_Witness ==
    /\ fn.name = "terminate" /\ ~fn.s.terminated /\ fn.s.master = "some"
    /\ fn.e.exit.ran /\ fn.e.exit.code = 1 /\ fn.e.mstatus = ConnErrCode
    /\ fn.e.mtext = M_broken_pipe /\ fn.e.readOk
    /\ fn.out.result = NewError("Master", "Other", Trim(M_broken_pipe))

\* C17: on a non-terminated Session whose check sub-command could be run,
\* check inspects the background process only when the sub-command exits with
\* code 255: it then returns the background-process error if the handle is
\* in its slot and the process exited with failure, and "connection presumed
\* severed" (Error::Disconnected) otherwise; for every other exit code, zero
\* or not, check returns success and leaves the handle in its slot.
C17_CheckInspectsOn255Only ==
    (fn.name = "check" /\ ~fn.s.terminated /\ fn.e.sub.ran) =>
        IF fn.e.sub.code = ConnErrCode
        THEN IF fn.s.master = "some" /\ ~Success(fn.e.mstatus)
             THEN fn.out.result.tag = "Master"
             ELSE fn.out.result = Disconnected
        ELSE fn.out.result = Ok /\ fn.out.s = fn.s

C17_Witness ==
    /\ fn.name = "check" /\ ~fn.s.terminated /\ fn.s.master = "some"
    /\ fn.e.sub.ran /\ fn.e.sub.code = 1
    /\ fn.out.result = Ok /\ fn.out.s.master = "some" /\ fn.out.s.handle = "slot"

\* A diagnostic given whole, after the optional "ssh: " prefix, whose phase
\* (the text before the first ": ") starts with "Could not resolve".
ResolvePhase ==
    Classified /\ ~fn.in.warn /\ fn.in.rlead = <<>> /\ fn.in.phase = P_resolve

\* C18: for every diagnostic whose phase starts with "Could not resolve" the
\* classifier yields the unclassified I/O category (Other) whatever the
\* detail is: a detail of exactly "Connection refused" or one containing
\* "Permission denied (" does not change the result.
C18_ResolveWhateverTheDetail ==
    ResolvePhase => fn.out.kind = "Other"

\* C18 (amended): for every diagnostic whose phase starts with "Could not
\* resolve" the classifier yields the unclassified I/O category unless the
\* detail matches a later override, which then wins: a detail of exactly
\* "Connection refused" yields connection-refused and one containing
\* "Permission denied (" yields permission-denied.
C18_ResolveUnlessDetailOverrides ==
    ResolvePhase =>
        fn.out.kind =
            IF fn.in.detail.has /\ fn.in.detail.text = S_connection_refused
            THEN "ConnectionRefused"
            ELSE IF fn.in.detail.has /\ Contains(fn.in.detail.text, S_permission_denied)
                 THEN "PermissionDenied"
                 ELSE "Other"

C18_Witness ==
    /\ ResolvePhase
    /\ fn.in.detail = [has |-> TRUE, text |-> S_connection_refused]
    /\ fn.out.kind = "ConnectionRefused"

\* A text matched by one of the overrides of the classifier, as the parts of
\* the input tell: a phase starting with "Could not resolve", or a detail of
\* "Network is unreachable" or "Connection refused" or holding "Permission
\* denied (".
Overridden(i) ==
    \/ i.phase = P_resolve
    \/ /\ i.detail.has
       /\ i.detail.text \in {S_network_unreachable, S_connection_refused, E_denied}

\* A text the classifier reads as it was composed: nothing cut off with a
\* warning line, and no "ssh: " left before the phase.
ReadWhole(i) == ~i.warn /\ i.rlead # S_ssh_prefix

\* C19: the classifier is total: for every text, the empty text, a text
\* without ": " and a warning line with nothing after it included, it
\* returns a handshake error (Error::Connect); and every text none of the
\* overrides matches keeps the default "connection aborted" kind.
C19_TotalWithDefault ==
    Classified =>
        /\ fn.out.tag = "Connect"
        /\ fn.out.kind \in {"ConnectionAborted", "Other", "ConnectionRefused", "PermissionDenied"}
        /\ (ReadWhole(fn.in) /\ ~Overridden(fn.in)) => fn.out.kind = "ConnectionAborted"
        /\ fn.text = <<>> => fn.out = NewError("Connect", "ConnectionAborted", <<>>)
        /\ (fn.in.warn /\ Remainder(fn.in) = <<>>) =>
              fn.out = NewError("Connect", "ConnectionAborted", <<>>)

C19_Witness ==
    /\ Classified
    /\ fn.text = S_ssh_prefix \o W_line \o S_crlf
    /\ fn.out = NewError("Connect", "ConnectionAborted", <<>>)

\* An ssh:// destination with no text after its last ":" that is a valid
\* port: empty, not a number, or beyond the 16-bit range; or the last ":" is
\* one of a bracketed address.
NoValidPort(i) ==
    /\ i.scheme
    /\ \/ i.port.has /\ i.port.text \in {<<>>, N_abc, N_65536}
       \/ ~i.port.has /\ i.host = H_v6

\* C20: when an ssh:// destination has no text after its last ":" that parses
\* as a valid port, Session::connect passes the whole original string as an
\* opaque destination to the builder, with no user and no port set.
C20_WholeStringOpaque ==
    (Parsed /\ NoValidPort(fn.in)) =>
        fn.out = [user |-> None, port |-> None, destination |-> fn.text]

\* C20 (amended): when an ssh:// destination has no text after its last ":"
\* that parses as a valid port, Session::connect sets no port and leaves the
\* ":" and the text after it in the destination; the scheme is still
\* stripped and the user before the first "@" is still set.
C20_PortLeftInDestination ==
    (Parsed /\ NoValidPort(fn.in)) =>
        /\ fn.out.port = None
        /\ fn.out.user = IF fn.in.users = <<>> THEN None ELSE Some(Head(fn.in.users))
        /\ fn.out.destination =
              IF fn.in.users = <<>> THEN AfterScheme(fn.in)
              ELSE AfterScheme([fn.in EXCEPT !.users = Tail(@)])

C20_Witness ==
    /\ Parsed
    /\ fn.text = S_scheme \o U_alice \o S_at \o H_example \o S_colon \o N_65536
    /\ fn.out = [user |-> Some(U_alice), port |-> None,
                 destination |-> H_example \o S_colon \o N_65536]

\* A check has returned a background-process error or "connection presumed
\* severed" to one of the threads.
CheckReportedLoss ==
    \E t \in Threads : pc[t] = "idle" /\ res[t].tag \in {"Master", "Disconnected"}

\* C21: check and command never change the terminated flag, the destination
\* or the socket path; after check has reported a background-process error or
\* "connection presumed severed" on a live Session, the Session is still not
\* terminated, a Command can still be created, and the close or drop that
\* follows still runs the exit sub-command.
C21_CheckAndCommandFrame ==
    [][/\ (pc' # pc \/ res' # res \/ seen' # seen \/ commands' # commands) =>
              UNCHANGED <<terminated, addr, ctl>>
       /\ (CheckReportedLoss /\ life = "live") =>
              /\ ~terminated
              /\ commands < MaxCommands => ENABLED command
              /\ life' # "live" => exits' > exits]_vars

C21_Witness ==
    /\ \E t \in Threads : res[t].tag = "Master"
    /\ life = "dropped" /\ closed /\ ~fin.wasTerminated
    /\ commands >= 1 /\ exits >= 1

\* C22: a background-process error (Error::Master) is derived from the Child
\* at most once over the life of a Session: once a check has taken the Child
\* out of its slot, every later check that sees exit code 255 returns
\* "connection presumed severed", and a later close whose exit sub-command
\* ran and reported failure returns success.
C22_MasterErrorAtMostOnce ==
    [][/\ masterErrs' <= 1
       /\ \A t \in Threads :
              (pc[t] = "take" /\ pc'[t] # "take" /\ master = "empty") =>
                  res'[t] = Disconnected
       /\ (life = "live" /\ closed' /\ master = "empty" /\ closeResult'.tag # "Ssh") =>
              closeResult' = Ok]_vars

C22_Witness ==
    /\ masterErrs = 1 /\ sawEmpty
    /\ \E t, u \in Threads :
        /\ t # u
        /\ res[t].tag = "Master"
        /\ seen[u].code = ConnErrCode /\ res[u] = Disconnected
    /\ closed /\ closeResult = Ok /\ exits >= 1

====
